---- MODULE Spec2Model ----
(***************************************************************************)
(* A model of eass.h: the DynamicValue / DynamicArray container            *)
(* (array, array_append, array_insert, array_remove, array_get,            *)
(* free_dynamic_array, free_dynamic_value), the eass_last_error channel    *)
(* the template formatters string_format and print, and numlit.            *)
(*                                                                         *)
(* C indices are 0-based; a buffer is a TLA+ sequence, so C's data[i] is   *)
(* data[i + 1] here.  A NULL data pointer is the empty sequence: Len(data) *)
(* is the number of slots really allocated, which the capacity field may   *)
(* or may not agree with.  The caller always passes &arr, so the           *)
(* arr == NULL returns of the array functions are never taken.             *)
(***************************************************************************)
EXTENDS Integers, Sequences, FiniteSets, Bags, TLC

\* ------------------------------------------------------------------ bounds
\* Number of values the caller creates and hands to append / insert.
MaxVals == 5
\* Largest initial_capacity passed to array().
MaxInitCap == 2
\* Largest value an uninitialised size / capacity field is taken to hold.
MaxJunk == 1
\* Number of array_insert, array_remove and array_get calls the caller makes.
MaxOther == 2

VARIABLES
    embedded,         \* build: EASS_ENABLE_EMBEDDED defined or not
    arr,              \* the DynamicArray under test
    eass_last_error,  \* the Error Channel
    call,             \* the last library call: name, arguments, result, path
    crashed,          \* the process died on an invalid memory access
    nextVal,          \* index of the next value the caller creates
    others,           \* number of array_insert, array_remove, array_get calls made
    initial_capacity, \* history: the capacity arr was created with
    onlyAppends,      \* history: no call other than array_append was made
    handed,           \* history: ids of values array_remove handed to the caller
    added,            \* history: ids of values append / insert took ownership of
    released,         \* history: bag of ids free_dynamic_value was applied to
    freed,            \* history: free_dynamic_array was called on arr
    undo,             \* history: the last successful array_insert and the content before it
    input,            \* string_format's arguments: format, the variadic args, and
                      \* the memory that follows the format string
    sf,               \* the frame of the string_format call
    pr,               \* the frame of the print call and what it wrote to stdout
    nl                \* a numlit call: the argument's static type, its value, the result

vars == <<embedded, arr, eass_last_error, call, crashed, nextVal, others, initial_capacity,
          onlyAppends, handed, added, released, freed, undo, input, sf, pr, nl>>

\* ------------------------------------------------------------- data model

\* struct DynamicArray: data, size, capacity, error.
DynamicArray(d, s, c, e) == [data |-> d, size |-> s, capacity |-> c, error |-> e]

NoArray == DynamicArray(<<>>, 0, 0, 0)

\* struct DynamicValue: type, error and the payload.  v is value.i or value.f
\* (in millionths), s the characters value.s points to, a is value.a; id
\* names the value (its heap pointer, for a Text), so that two values with
\* equal content are still told apart.
DynamicValue(t, e, id, v, s, a) ==
    [type |-> t, error |-> e, id |-> id, v |-> v, s |-> s, a |-> a]

\* A slot of malloc / realloc memory no one wrote: its content is
\* indeterminate.  The marker equals no value the caller ever created.
Uninit == DynamicValue("UNINIT", 0, 0, 0, <<>>, NoArray)

\* (DynamicValue){EASS_NULL, 1, .value.i = 0}
FailedNull == DynamicValue("EASS_NULL", 1, 0, 0, <<>>, NoArray)

TextValue(id, s) == DynamicValue("EASS_STRING", 0, id, 0, s, NoArray)
IntValue(id, i) == DynamicValue("EASS_INT", 0, id, i, <<>>, NoArray)
FloatValue(id, millionths) == DynamicValue("EASS_FLOAT", 0, id, millionths, <<>>, NoArray)
NullValue(id) == DynamicValue("EASS_NULL", 0, id, 0, <<>>, NoArray)
ArrayValue(id, elems) ==
    DynamicValue("EASS_ARRAY", 0, id, 0, <<>>,
                 DynamicArray(elems, Len(elems), Len(elems), 0))

\* The k-th value the caller creates: a Text, an Int, or an Array holding a
\* Text and a nested Array with a Text of its own.
CallerValue(k) ==
    CASE k % 3 = 1 -> TextValue(k, <<"t">>)
      [] k % 3 = 2 -> IntValue(k, k)
      [] OTHER -> ArrayValue(k, <<TextValue(10 * k + 1, <<"u">>),
                                  ArrayValue(10 * k + 2, <<TextValue(10 * k + 3, <<"w">>)>>)>>)

\* EassError: code and message.  eass_last_error = {0, {0}} at start.
EassError(c, m) == [code |-> c, message |-> m]
NoError == EassError("0", "")

\* _set_error(code, message)
set_error(code, message) == EassError(code, message)

\* n fresh slots of uninitialised memory
Fresh(n) == [i \in 1..n |-> Uninit]

\* realloc(data, new_cap * sizeof(DynamicValue)): the old content is kept, the
\* added slots are uninitialised.  realloc(NULL, n) is malloc(n).
Realloc(d, new_cap) ==
    IF new_cap >= Len(d) THEN d \o Fresh(new_cap - Len(d)) ELSE SubSeq(d, 1, new_cap)

\* What a library call did: the array after it, the Error Channel after it,
\* the path it took ("ok" or the failure it returned on), whether it called
\* _set_error, the data indices it read or wrote, whether one of them lay
\* outside the allocated buffer (an invalid memory access), and what it
\* returned (a DynamicArray for append / insert, a DynamicValue for remove /
\* get).
Outcome(a, e, path, set, acc, bad, ret) ==
    [arr |-> a, err |-> e, path |-> path, set |-> set, acc |-> acc,
     bad |-> bad, ret |-> ret]

\* data[i] = v
Store(d, i, v) == IF i < Len(d) THEN [d EXCEPT ![i + 1] = v] ELSE d

\* data[i]
Load(d, i) == IF i < Len(d) THEN d[i + 1] ELSE Uninit

\* ------------------------------------------------------------------ array

\* array(initial_capacity).  On a failed malloc only data and error are
\* assigned: size and capacity keep what the stack held (junk_size, junk_cap).
array(capacity0, alloc_ok, junk_size, junk_cap) ==
    IF capacity0 = 0
    THEN [arr |-> DynamicArray(<<>>, 0, 0, 0), err |-> NoError, path |-> "ok"]
    ELSE IF ~alloc_ok
    THEN [arr |-> DynamicArray(<<>>, junk_size, junk_cap, 1),
          err |-> set_error("ENOMEM", "malloc failed in array"),
          path |-> "alloc_fail"]
    ELSE [arr |-> DynamicArray(Fresh(capacity0), 0, capacity0, 0),
          err |-> NoError, path |-> "ok"]

\* ----------------------------------------------------------- array_append

\* int new_cap = arr->capacity + (arr->capacity >> 1); if (new_cap < 4) new_cap = 4;
AppendCap(capacity) ==
    LET new_cap == capacity + (capacity \div 2) IN IF new_cap < 4 THEN 4 ELSE new_cap

\* A growth that allocates the new buffer and copies nothing.
AppendGrowNoCopy(a, emb) == Fresh(AppendCap(a.capacity))

\* The grown buffer of array_append.  Embedded build: malloc, memcpy of size
\* elements, free.  Otherwise realloc.
AppendGrow(a, emb) ==
    IF emb
    THEN [j \in 1..AppendCap(a.capacity) |-> IF j <= a.size THEN Load(a.data, j - 1) ELSE Uninit]
    ELSE Realloc(a.data, AppendCap(a.capacity))

\* arr->data = realloc(arr->data, ...): a failed realloc loses the buffer.
array_append_losing_buffer(a, val, e, emb, alloc_ok) ==
    IF a.error # 0
    THEN Outcome(a, e, "error_flag", FALSE, {}, FALSE, a)
    ELSE IF a.size >= a.capacity /\ ~alloc_ok
    THEN Outcome([a EXCEPT !.error = 1, !.data = <<>>],
                 set_error("ENOMEM", "realloc failed in array_append"),
                 "alloc_fail", TRUE, {}, FALSE, [a EXCEPT !.error = 1, !.data = <<>>])
    ELSE LET grow == a.size >= a.capacity
             d == IF grow THEN Realloc(a.data, AppendCap(a.capacity)) ELSE a.data
             cap == IF grow THEN AppendCap(a.capacity) ELSE a.capacity
             after == DynamicArray(Store(d, a.size, val), a.size + 1, cap, a.error)
         IN Outcome(after, e, "ok", FALSE, {a.size}, a.size >= Len(d), after)

array_append(a, val, e, emb, alloc_ok) ==
    IF a.error # 0
    THEN Outcome(a, e, "error_flag", FALSE, {}, FALSE, a)
    ELSE IF a.size >= a.capacity /\ ~alloc_ok
    THEN Outcome([a EXCEPT !.error = 1],
                 set_error("ENOMEM", IF emb THEN "Realloc failed - embedded system"
                                            ELSE "realloc failed in array_append"),
                 "alloc_fail", TRUE, {}, FALSE, [a EXCEPT !.error = 1])
    ELSE LET grow == a.size >= a.capacity
             d == IF grow THEN AppendGrow(a, emb) ELSE a.data
             cap == IF grow THEN AppendCap(a.capacity) ELSE a.capacity
             acc == (IF grow /\ emb THEN 0..(a.size - 1) ELSE {}) \cup {a.size}
             bad == (grow /\ emb /\ a.size > Len(a.data)) \/ a.size >= Len(d)
             after == DynamicArray(Store(d, a.size, val), a.size + 1, cap, a.error)
         IN Outcome(after, e, "ok", FALSE, acc, bad, after)

\* ----------------------------------------------------------- array_insert

\* size_t new_cap = (arr->capacity == 0) ? 4 : arr->capacity * 2;
InsertCap(capacity) == IF capacity = 0 THEN 4 ELSE capacity * 2

\* The buffer after array_insert made room, before data[index] = val.
\* Growing, embedded build: a new buffer, the elements before index copied to
\* the same place and those from index on copied one slot to the right.
\* Growing, otherwise: realloc and nothing else.
\* Not growing: the elements from index on shifted one slot to the right.
InsertRoom(a, index, emb) ==
    IF a.size >= a.capacity
    THEN IF emb
         THEN [j \in 1..InsertCap(a.capacity) |->
                  IF j <= index THEN Load(a.data, j - 1)
                  ELSE IF j > index + 1 /\ j <= a.size + 1 THEN Load(a.data, j - 2)
                  ELSE Uninit]
         ELSE Realloc(a.data, InsertCap(a.capacity))
    ELSE [j \in 1..Len(a.data) |->
             IF j > index + 1 /\ j <= a.size + 1 THEN Load(a.data, j - 2)
             ELSE a.data[j]]

array_insert(a, index, val, e, emb, alloc_ok) ==
    IF a.error # 0
    THEN Outcome(a, e, "error_flag", FALSE, {}, FALSE, a)
    ELSE IF index > a.size
    THEN Outcome(a, set_error("EINVAL", "Index out of bounds in array_insert"),
                 "bad_index", TRUE, {}, FALSE, a)
    ELSE IF a.size >= a.capacity /\ ~alloc_ok
    THEN Outcome([a EXCEPT !.error = 1],
                 set_error("ENOMEM", IF emb THEN "malloc failed in array_insert (embedded)"
                                            ELSE "realloc failed in array_insert"),
                 "alloc_fail", TRUE, {}, FALSE, [a EXCEPT !.error = 1])
    ELSE LET grow == a.size >= a.capacity
             d == InsertRoom(a, index, emb)
             cap == IF grow THEN InsertCap(a.capacity) ELSE a.capacity
             acc == (IF grow /\ ~emb THEN {} ELSE 0..(a.size - 1)) \cup {index}
                    \cup (IF grow THEN {} ELSE index..a.size)
             bad == IF grow THEN (emb /\ a.size > Len(a.data)) \/ index >= Len(d)
                    ELSE a.size >= Len(a.data)
             after == DynamicArray(Store(d, index, val), a.size + 1, cap, a.error)
         IN Outcome(after, e, "ok", FALSE, acc, bad, after)

\* ----------------------------------------------------------- array_remove

\* for (i = index; i < size - 1; i++) data[i] = data[i + 1];
RemoveShift(a, index) ==
    [j \in 1..Len(a.data) |->
        IF j >= index + 1 /\ j <= a.size - 1 THEN Load(a.data, j) ELSE a.data[j]]

\* array_remove without the arr->error test.
array_remove_ignoring_error(a, index, e) ==
    IF index >= a.size
    THEN Outcome(a, set_error("EINVAL", "Index out of bounds in array_remove"),
                 "bad_index", TRUE, {}, FALSE, FailedNull)
    ELSE Outcome(DynamicArray(RemoveShift(a, index), a.size - 1, a.capacity, a.error),
                 e, "ok", FALSE, index..(a.size - 1), a.size > Len(a.data),
                 Load(a.data, index))

array_remove(a, index, e) ==
    IF a.error # 0
    THEN Outcome(a, e, "error_flag", FALSE, {}, FALSE, FailedNull)
    ELSE IF index >= a.size
    THEN Outcome(a, set_error("EINVAL", "Index out of bounds in array_remove"),
                 "bad_index", TRUE, {}, FALSE, FailedNull)
    ELSE Outcome(DynamicArray(RemoveShift(a, index), a.size - 1, a.capacity, a.error),
                 e, "ok", FALSE, index..(a.size - 1), a.size > Len(a.data),
                 Load(a.data, index))

\* -------------------------------------------------------------- array_get

\* array_get with index > size as its bound test.
array_get_off_by_one(a, index, e) ==
    IF a.error # 0
    THEN Outcome(a, e, "error_flag", FALSE, {}, FALSE, FailedNull)
    ELSE IF index > a.size
    THEN Outcome(a, set_error("EINVAL", "Index out of bounds in array_get"),
                 "bad_index", TRUE, {}, FALSE, FailedNull)
    ELSE Outcome(a, e, "ok", FALSE, {index}, index >= Len(a.data), Load(a.data, index))

array_get(a, index, e) ==
    IF a.error # 0
    THEN Outcome(a, e, "error_flag", FALSE, {}, FALSE, FailedNull)
    ELSE IF index >= a.size
    THEN Outcome(a, set_error("EINVAL", "Index out of bounds in array_get"),
                 "bad_index", TRUE, {}, FALSE, FailedNull)
    ELSE Outcome(a, e, "ok", FALSE, {index}, index >= Len(a.data), Load(a.data, index))

\* ----------------------------------- free_dynamic_value, free_dynamic_array

RECURSIVE FreeValueIds(_), FreeArrayIds(_, _)

\* The ids free_dynamic_value(&v) is applied to, v's own last: a Text frees
\* its buffer, an Array goes through free_dynamic_array, anything else only
\* has its type set to EASS_NULL.  An indeterminate slot contributes no id.
FreeValueIds(v) ==
    CASE v.type = "EASS_ARRAY" -> FreeArrayIds(v.a, 1) \o <<v.id>>
      [] v.type = "UNINIT" -> <<>>
      [] OTHER -> <<v.id>>

\* for (i = 0; i < arr->size; i++) free_dynamic_value(&arr->data[i]);
FreeArrayIds(a, i) ==
    IF i > a.size THEN <<>>
    ELSE FreeValueIds(Load(a.data, i - 1)) \o FreeArrayIds(a, i + 1)

\* The logical content of an array: data[0 .. size-1].
Elems(a) == [i \in 1..a.size |-> Load(a.data, i - 1)]

\* free_dynamic_array(&a): every element below size is released, then the
\* buffer is freed and data set to NULL; size, capacity and error stay.
\* indet: an element below size was never initialised, so free_dynamic_value
\* switches on an indeterminate type and may free an indeterminate pointer.
free_dynamic_array(a) ==
    [arr |-> [a EXCEPT !.data = <<>>],
     ids |-> FreeArrayIds(a, 1),
     acc |-> 0..(a.size - 1),
     bad |-> a.size > Len(a.data),
     indet |-> \E i \in 1..a.size : Load(a.data, i - 1).type = "UNINIT"]

BagOf(seq) ==
    [x \in {seq[i] : i \in DOMAIN seq} |-> Cardinality({i \in DOMAIN seq : seq[i] = x})]

\* ---------------------------------------------------------- string_format

\* formatted_length += 128: what the first pass allows for one placeholder.
Allowance == 128

\* '\0', and a byte of the output buffer nothing was written to.
NUL == "NUL"
Unwritten == "??"

Digits == <<"0", "1", "2", "3", "4", "5", "6", "7", "8", "9">>

isdigit(c) == \E d \in 1..10 : Digits[d] = c

DigitValue(c) == (CHOOSE d \in 1..10 : Digits[d] = c) - 1

\* *(format + p - 1): the template, its terminator, and then whatever memory
\* follows the string (past), taken to end in a zero byte.
CharAt(in, p) ==
    IF p <= Len(in.format) THEN in.format[p]
    ELSE IF p = Len(in.format) + 1 THEN NUL
    ELSE IF p - Len(in.format) - 1 <= Len(in.past) THEN in.past[p - Len(in.format) - 1]
    ELSE NUL

RECURSIVE strtol(_, _, _)

\* strtol(format + p - 1, NULL, 10) on a run of digits, acc being the value
\* read so far.
strtol(in, p, acc) ==
    IF isdigit(CharAt(in, p)) THEN strtol(in, p + 1, 10 * acc + DigitValue(CharAt(in, p)))
    ELSE acc

RECURSIVE DecimalText(_)

\* The decimal digits of n >= 0.
DecimalText(n) ==
    IF n < 10 THEN <<Digits[n + 1]>> ELSE DecimalText(n \div 10) \o <<Digits[(n % 10) + 1]>>

\* printf's "%d"
IntText(i) == IF i < 0 THEN <<"-">> \o DecimalText(-i) ELSE DecimalText(i)

\* printf's "%f" of a float given in millionths: six decimals.
FloatText(m) ==
    LET abs == IF m < 0 THEN -m ELSE m
        frac == DecimalText(abs % 1000000)
    IN (IF m < 0 THEN <<"-">> ELSE <<>>) \o DecimalText(abs \div 1000000) \o <<".">>
       \o [i \in 1..(6 - Len(frac)) |-> "0"] \o frac

\* The text one snprintf call of the renderer is given for an Int, Float or
\* Text; the element branches have no case for any other type.
ScalarText(v) ==
    CASE v.type = "EASS_INT" -> IntText(v.v)
      [] v.type = "EASS_FLOAT" -> FloatText(v.v)
      [] v.type = "EASS_STRING" -> v.s
      [] OTHER -> <<>>

RECURSIVE ElementPieces(_, _)

\* The snprintf calls of the element loop from element i (1-based) on: an
\* Int, Float or Text element is printed, any other element is skipped, and
\* ", " follows every element but the last.  The loop stops at an element
\* whose error flag is set.
ElementPieces(a, i) ==
    IF i > a.size \/ Load(a.data, i - 1).error # 0 THEN <<>>
    ELSE LET element == Load(a.data, i - 1) IN
         (IF element.type \in {"EASS_INT", "EASS_FLOAT", "EASS_STRING"}
          THEN <<ScalarText(element)>> ELSE <<>>)
         \o (IF i - 1 < a.size - 1 THEN <<<<",", " ">>>> ELSE <<>>)
         \o ElementPieces(a, i + 1)

\* An element of the array has its error flag set: the renderer returns NULL.
ElementFailed(a) == \E i \in 1..a.size : Load(a.data, i - 1).error # 0

\* The texts of the snprintf calls that render val, in order (switch (val.type)).
Pieces(val) ==
    CASE val.type \in {"EASS_INT", "EASS_FLOAT", "EASS_STRING"} -> <<ScalarText(val)>>
      [] val.type = "EASS_ARRAY" ->
            <<<<"A", "r", "r", "a", "y", "[">>>> \o ElementPieces(val.a, 1) \o <<<<"]">>>>
      [] val.type = "EASS_NULL" -> <<<<"N", "U", "L", "L">>>>
      [] OTHER -> <<>>

\* out_p += snprintf(out_p, formatted_length + 1 - (out_p - formatted_string), text)
\* on the buffer buf of Len(buf) bytes, out_p being an offset into it.  The
\* size is a size_t: once out_p is past the end it wraps to a huge number and
\* the whole text is written outside the buffer.
snprintf(buf, out_p, text) ==
    LET room == Len(buf) - out_p
        m == IF room < 0 THEN Len(text)
             ELSE IF room = 0 THEN 0
             ELSE IF Len(text) < room - 1 THEN Len(text) ELSE room - 1
    IN [buf |-> [j \in 1..Len(buf) |->
                    IF room = 0 THEN buf[j]
                    ELSE IF j - out_p >= 1 /\ j - out_p <= m THEN text[j - out_p]
                    ELSE IF j - out_p = m + 1 THEN NUL
                    ELSE buf[j]],
        out_p |-> out_p + Len(text),
        oob |-> room < 0]

RECURSIVE Emit(_, _, _, _)

\* The snprintf calls for pieces, one after the other.
Emit(buf, out_p, oob, pieces) ==
    IF pieces = <<>> THEN [buf |-> buf, out_p |-> out_p, oob |-> oob]
    ELSE LET w == snprintf(buf, out_p, Head(pieces))
         IN Emit(w.buf, w.out_p, oob \/ w.oob, Tail(pieces))

\* *out_p = c
Poke(buf, out_p, c) == IF out_p < Len(buf) THEN [buf EXCEPT ![out_p + 1] = c] ELSE buf

\* The C string at the start of buf: the bytes before its first NUL.
CString(buf) ==
    LET nuls == {j \in 1..Len(buf) : buf[j] = NUL}
    IN IF nuls = {} THEN buf
       ELSE SubSeq(buf, 1, (CHOOSE j \in nuls : \A k \in nuls : j <= k) - 1)

\* What reading a DynamicValue the program never initialised (a slot past the
\* end of arg_values, a variadic argument that was not passed) may give.
Indeterminate ==
    {NullValue(0), FailedNull, IntValue(0, 0)}

\* A slot of arg_values after "arg_values[i].type = EASS_NULL": the type is
\* set, the error flag is not (-1 marks it as indeterminate).
UnsetSlot == DynamicValue("EASS_NULL", -1, 0, 0, <<>>, NoArray)

\* The frame of a string_format call.
Frame(pc) ==
    [pc |-> pc, p |-> 1, formatted_length |-> 0, arg_count |-> 0, va |-> 0,
     buf |-> <<>>, out_p |-> 0, arg_values |-> <<>>, current_arg |-> 0,
     ret |-> "none", result |-> <<>>, set |-> FALSE, oob |-> FALSE, bad |-> FALSE,
     string_ok |-> TRUE, values_ok |-> TRUE]

\* before: the Error Channel when the call is made.
NoInput == [format |-> <<>>, args |-> <<>>, past |-> <<>>, before |-> NoError]

\* One iteration of the first loop: count placeholders and add up the length.
Pass1(in, f) ==
    LET c == CharAt(in, f.p)
        c1 == CharAt(in, f.p + 1)
    IN IF c = NUL THEN [f EXCEPT !.pc = "alloc"]
       ELSE IF c = "{" /\ c1 # NUL
       THEN IF c1 = "}"
            THEN [f EXCEPT !.arg_count = @ + 1, !.p = @ + 2, !.va = @ + 1,
                           !.formatted_length = @ + Allowance]
            ELSE IF isdigit(c1)
            THEN LET index == strtol(in, f.p + 1, 0) IN
                 [f EXCEPT !.arg_count = IF index > @ THEN index ELSE @,
                           !.p = @ + 3, !.va = @ + 1,
                           !.formatted_length = @ + Allowance]
            ELSE [f EXCEPT !.formatted_length = @ + 1, !.p = @ + 1]
       ELSE [f EXCEPT !.formatted_length = @ + 1, !.p = @ + 1]

\* The two allocations between the loops.  The first is checked; the second
\* is not, and its initialisation loop writes through the pointer.
Allocate(f, string_ok, values_ok) ==
    IF ~string_ok
    THEN [f EXCEPT !.pc = "done", !.ret = "NULL", !.set = TRUE, !.string_ok = FALSE]
    ELSE [f EXCEPT !.values_ok = values_ok,
                   !.pc = IF ~values_ok /\ f.arg_count > 0 THEN "crashed" ELSE "pass2",
                   !.bad = ~values_ok /\ f.arg_count > 0,
                   !.p = 1, !.va = 0, !.out_p = 0, !.current_arg = 0,
                   !.buf = [j \in 1..(f.formatted_length + 1) |-> Unwritten],
                   !.arg_values = IF values_ok THEN [i \in 1..f.arg_count |-> UnsetSlot]
                                  ELSE <<>>]

\* return NULL after free(formatted_string); free(arg_values);
ReturnNull(f) == [f EXCEPT !.pc = "done", !.ret = "NULL", !.buf = <<>>, !.arg_values = <<>>]

\* The switch on val.type: the value is rendered at out_p, unless it is an
\* array with a failed element.
Render(f, val) ==
    LET w == Emit(f.buf, f.out_p, f.oob, Pieces(val))
    IN IF val.type = "EASS_ARRAY" /\ ElementFailed(val.a)
       THEN ReturnNull(f)
       ELSE [f EXCEPT !.buf = w.buf, !.out_p = w.out_p, !.oob = w.oob]

\* The end of string_format: *out_p = '\0', every slot of arg_values goes
\* through free_dynamic_value, arg_values is freed and formatted_string
\* returned.
Finish(f) ==
    LET buf == Poke(f.buf, f.out_p, NUL) IN
    [f EXCEPT !.pc = "done", !.ret = "string", !.buf = buf, !.result = CString(buf),
              !.oob = @ \/ f.out_p >= Len(f.buf), !.arg_values = <<>>]

\* The ids free_dynamic_value is applied to at the end of string_format.
FinishIds(f) == FreeArrayIds(DynamicArray(f.arg_values, f.arg_count, f.arg_count, 0), 1)

\* One iteration of the second loop.  junk is what an uninitialised read
\* gives, junk_error what an uninitialised error flag tests as.
Pass2(in, f, junk, junk_error) ==
    LET c == CharAt(in, f.p)
        c1 == CharAt(in, f.p + 1)
    IN IF c = NUL
       THEN Finish(f)
       ELSE IF c = "{" /\ c1 # NUL
       THEN IF c1 = "}"
            THEN LET val == IF f.va < Len(in.args) THEN in.args[f.va + 1] ELSE junk
                     g == [f EXCEPT !.va = @ + 1, !.p = @ + 2, !.current_arg = @ + 1,
                                    !.arg_values = IF f.current_arg < f.arg_count
                                                   THEN Store(@, f.current_arg, val)
                                                   ELSE @]
                 IN IF val.error # 0 THEN ReturnNull(g) ELSE Render(g, val)
            ELSE IF isdigit(c1)
            THEN LET index == strtol(in, f.p + 1, 0)
                     slot == IF index < Len(f.arg_values) THEN f.arg_values[index + 1]
                             ELSE junk
                     val == IF slot.error = -1 THEN [slot EXCEPT !.error = junk_error]
                            ELSE slot
                     g == [f EXCEPT !.p = @ + 3]
                 IN IF val.error # 0 THEN ReturnNull(g) ELSE Render(g, val)
            ELSE [f EXCEPT !.buf = Poke(@, f.out_p, c), !.out_p = @ + 1, !.p = @ + 1,
                           !.oob = @ \/ f.out_p >= Len(f.buf)]
       ELSE [f EXCEPT !.buf = Poke(@, f.out_p, c), !.out_p = @ + 1, !.p = @ + 1,
                      !.oob = @ \/ f.out_p >= Len(f.buf)]


\* -------------------------------------------------------------------- print

\* printf("Error: %d - %s", error->code, error->message): the code and the
\* message are each kept as one token of the output.
ErrorText(e) == <<"E", "r", "r", "o", "r", ":", " ", e.code, " ", "-", " ", e.message>>

RECURSIVE PrintElements(_, _)

\* The element loop of print from element i (1-based) on: an Int, Float or
\* Text element is printed, any other is skipped, ", " follows every element
\* but the last.  The error flag of an element is not looked at.
PrintElements(a, i) ==
    IF i > a.size THEN <<>>
    ELSE LET elem == Load(a.data, i - 1) IN
         (IF elem.type \in {"EASS_INT", "EASS_FLOAT", "EASS_STRING"}
          THEN ScalarText(elem) ELSE <<>>)
         \o (IF i - 1 < a.size - 1 THEN <<",", " ">> ELSE <<>>)
         \o PrintElements(a, i + 1)

\* What the switch (val.type) of print writes for val.
PrintText(val) ==
    CASE val.type \in {"EASS_INT", "EASS_FLOAT", "EASS_STRING"} -> ScalarText(val)
      [] val.type = "EASS_ARRAY" ->
            <<"A", "r", "r", "a", "y", "[">> \o PrintElements(val.a, 1) \o <<"]">>
      [] val.type = "EASS_NULL" -> <<"N", "U", "L", "L">>
      [] OTHER -> <<"U", "n", "k", "n", "o", "w", "n">>

\* The frame of a print call; out is what it has written to stdout, ids the
\* values free_dynamic_value was applied to.
PrintFrame(pc) == [pc |-> pc, p |-> 1, va |-> 0, out |-> <<>>, ids |-> <<>>]

\* One iteration of the loop of print, or its end.  junk is what va_arg gives
\* when no argument is left.
PrintStep(in, f, e, junk) ==
    LET c == CharAt(in, f.p)
        c1 == CharAt(in, f.p + 1)
    IN IF c = NUL
       THEN [f EXCEPT !.pc = "done", !.out = @ \o <<"\n">>]
       ELSE IF c = "{" /\ c1 = "}"
       THEN LET val == IF f.va < Len(in.args) THEN in.args[f.va + 1] ELSE junk
            IN IF val.error # 0
               THEN [f EXCEPT !.pc = "done", !.p = @ + 2, !.va = @ + 1,
                              !.out = @ \o ErrorText(e)]
               ELSE [f EXCEPT !.p = @ + 2, !.va = @ + 1, !.out = @ \o PrintText(val),
                              !.ids = @ \o FreeValueIds(val)]
       ELSE [f EXCEPT !.p = @ + 1, !.out = @ \o <<c>>]

\* ------------------------------------------------------------------- numlit

\* The static types an argument of numlit is given with.
IntegralTypes == {"char", "int", "long", "unsigned"}
FloatingTypes == {"float", "double"}

NoNumlit == [ctype |-> "none", x |-> 0, via |-> "none", done |-> FALSE, ret |-> Uninit]

\* (int)(x), x in millionths: the fraction is dropped.
IntCast(x) == IF x < 0 THEN -((-x) \div 1000000) ELSE x \div 1000000

\* The macro numlit(x): its _Generic lists int, float and double before the
\* one ':' that leads to the EASS_FLOAT literal; every other type takes
\* default, the EASS_INT literal.
numlit_macro(ctype, x) ==
    IF ctype \in {"int", "float", "double"}
    THEN DynamicValue("EASS_FLOAT", 0, 0, x, <<>>, NoArray)
    ELSE DynamicValue("EASS_INT", 0, 0, IntCast(x), <<>>, NoArray)

\* The function numlit(double value): the argument is converted to double, and
\* _Generic(value, ...) selects on the parameter's type, which is double.
numlit_function(ctype, x) ==
    LET value_type == "double" IN
    CASE value_type = "int" -> DynamicValue("EASS_INT", 0, 0, IntCast(x), <<>>, NoArray)
      [] value_type \in {"float", "double"} ->
            DynamicValue("EASS_FLOAT", 0, 0, x, <<>>, NoArray)
      [] OTHER -> DynamicValue("EASS_INT", 0, 0, IntCast(x), <<>>, NoArray)

\* numlit(x) where x has static type ctype: through the macro where it is in
\* effect, through the function otherwise.
numlit(ctype, x, via) ==
    IF via = "macro" THEN numlit_macro(ctype, x) ELSE numlit_function(ctype, x)

\* ---------------------------------------------------------------- actions

NoUndo == [valid |-> FALSE, index |-> 0, val |-> Uninit, elems |-> <<>>]

Call(name, index, val, o) ==
    [name |-> name, index |-> index, val |-> val, path |-> o.path, set |-> o.set,
     acc |-> o.acc, ret |-> o.ret]

Init ==
    /\ embedded \in BOOLEAN
    /\ initial_capacity \in 0..MaxInitCap
    /\ \E alloc_ok \in BOOLEAN, junk_size \in 0..MaxJunk, junk_cap \in 0..MaxJunk :
         LET o == array(initial_capacity, alloc_ok, junk_size, junk_cap) IN
         /\ arr = o.arr
         /\ eass_last_error = o.err
         /\ call = [name |-> "array", index |-> initial_capacity, val |-> Uninit,
                    path |-> o.path, set |-> (o.path # "ok"), acc |-> {},
                    ret |-> o.arr]
    /\ crashed = FALSE
    /\ nextVal = 1
    /\ others = 0
    /\ onlyAppends = TRUE
    /\ handed = {}
    /\ added = {}
    /\ released = EmptyBag
    /\ freed = FALSE
    /\ undo = NoUndo
    /\ input = NoInput
    /\ sf = Frame("idle")
    /\ pr = PrintFrame("idle")
    /\ nl = NoNumlit

\* The caller passes its next value to array_append.
ArrayAppend ==
    /\ ~crashed /\ ~freed
    /\ nextVal <= MaxVals
    /\ \E alloc_ok \in BOOLEAN :
         LET val == CallerValue(nextVal)
             o == array_append(arr, val, eass_last_error, embedded, alloc_ok)
         IN /\ arr' = o.arr
            /\ eass_last_error' = o.err
            /\ call' = Call("array_append", arr.size, val, o)
            /\ crashed' = o.bad
            /\ added' = IF o.path = "ok" THEN added \cup {val.id} ELSE added
    /\ nextVal' = nextVal + 1
    /\ undo' = NoUndo
    /\ UNCHANGED <<embedded, others, initial_capacity, onlyAppends, handed, released, freed,
                   input, sf, pr, nl>>

\* The caller passes its next value and an index to array_insert.
ArrayInsert ==
    /\ ~crashed /\ ~freed
    /\ others < MaxOther
    /\ nextVal <= MaxVals
    /\ \E index \in 0..(arr.size + 1), alloc_ok \in BOOLEAN :
         LET val == CallerValue(nextVal)
             o == array_insert(arr, index, val, eass_last_error, embedded, alloc_ok)
         IN /\ arr' = o.arr
            /\ eass_last_error' = o.err
            /\ call' = Call("array_insert", index, val, o)
            /\ crashed' = o.bad
            /\ added' = IF o.path = "ok" THEN added \cup {val.id} ELSE added
            /\ undo' = IF o.path = "ok" /\ ~o.bad
                       THEN [valid |-> TRUE, index |-> index, val |-> val,
                             elems |-> Elems(arr)]
                       ELSE NoUndo
    /\ nextVal' = nextVal + 1
    /\ others' = others + 1
    /\ onlyAppends' = FALSE
    /\ UNCHANGED <<embedded, initial_capacity, handed, released, freed, input, sf, pr, nl>>

\* array_remove(&arr, index)
ArrayRemove ==
    /\ ~crashed /\ ~freed
    /\ others < MaxOther
    /\ \E index \in 0..arr.size :
         LET o == array_remove(arr, index, eass_last_error)
         IN /\ arr' = o.arr
            /\ eass_last_error' = o.err
            /\ call' = Call("array_remove", index, Uninit, o)
            /\ crashed' = o.bad
            /\ handed' = IF o.path = "ok" THEN handed \cup {o.ret.id} ELSE handed
            /\ undo' = IF o.path = "ok" /\ call.name = "array_insert" /\ undo.valid
                          /\ undo.index = index
                       THEN undo ELSE NoUndo
    /\ others' = others + 1
    /\ onlyAppends' = FALSE
    /\ UNCHANGED <<embedded, nextVal, initial_capacity, added, released, freed, input, sf, pr, nl>>

\* array_get(&arr, index)
ArrayGet ==
    /\ ~crashed /\ ~freed
    /\ others < MaxOther
    /\ \E index \in 0..arr.size :
         LET o == array_get(arr, index, eass_last_error)
         IN /\ arr' = o.arr
            /\ eass_last_error' = o.err
            /\ call' = Call("array_get", index, Uninit, o)
            /\ crashed' = o.bad
    /\ others' = others + 1
    /\ onlyAppends' = FALSE
    /\ undo' = NoUndo
    /\ UNCHANGED <<embedded, nextVal, initial_capacity, handed, added, released, freed,
                   input, sf, pr, nl>>

\* free_dynamic_array(&arr)
FreeDynamicArray ==
    /\ ~crashed
    /\ \E wild \in BOOLEAN :
         LET o == free_dynamic_array(arr)
         IN /\ arr' = o.arr
            /\ call' = [name |-> "free_dynamic_array", index |-> 0, val |-> Uninit,
                        path |-> "ok", set |-> FALSE, acc |-> o.acc, ret |-> o.arr]
            /\ crashed' = (o.bad \/ (o.indet /\ wild))
            /\ released' = released (+) BagOf(o.ids)
    /\ freed' = TRUE
    /\ onlyAppends' = FALSE
    /\ undo' = NoUndo
    /\ UNCHANGED <<embedded, eass_last_error, nextVal, others, initial_capacity, handed, added,
                   input, sf, pr, nl>>

Next ==
    \/ ArrayAppend
    \/ ArrayInsert
    \/ ArrayRemove
    \/ ArrayGet
    \/ FreeDynamicArray

Spec == Init /\ [][Next]_vars

\* -------------------------------------------------- string_format: the calls

\* "{} and {}", "{1} then {0}", "{}", "{} {0}", "hi {}!", "{0}", "{10}",
\* "x{", "{a}", "{0"
Templates ==
    {<<"{", "}", " ", "a", "n", "d", " ", "{", "}">>,
     <<"{", "1", "}", " ", "t", "h", "e", "n", " ", "{", "0", "}">>,
     <<"{", "}">>,
     <<"{", "}", " ", "{", "0", "}">>,
     <<"h", "i", " ", "{", "}", "!">>,
     <<"{", "0", "}">>,
     <<"{", "1", "0", "}">>,
     <<"x", "{">>,
     <<"{", "a", "}">>,
     <<"{", "0">>}

\* A Text one character longer than the allowance of a placeholder.
LongText == [i \in 1..(Allowance + 1) |-> "a"]

\* (Int 1, Text "x"), (Int 10, Int 20), (a long Text), (a failed value),
\* (an Array of an Int, a Text and a Float), (Float -2.5, Null),
\* (an Array of an Int, a Null and an Array of an Int), (an empty Array)
ArgLists ==
    {<<IntValue(1, 1), TextValue(2, <<"x">>)>>,
     <<IntValue(1, 10), IntValue(2, 20)>>,
     <<TextValue(1, LongText)>>,
     <<FailedNull>>,
     <<ArrayValue(1, <<IntValue(11, 1), TextValue(12, <<"b">>), FloatValue(13, 1500000)>>)>>,
     <<FloatValue(1, -2500000), NullValue(2)>>,
     <<ArrayValue(1, <<IntValue(11, 7), NullValue(12),
                       ArrayValue(13, <<IntValue(14, 8)>>)>>)>>,
     <<ArrayValue(1, <<>>)>>}

\* What may lie in memory after the terminator of the format string.
PastMemory == {<<>>, <<"z">>}

InitFmt ==
    /\ input \in [format : Templates, args : ArgLists, past : PastMemory,
                   before : {NoError,
                             set_error("EINVAL", "Index out of bounds in array_get")}]
    /\ sf = Frame("pass1")
    /\ eass_last_error = input.before
    /\ embedded = FALSE
    /\ arr = NoArray
    /\ call = [name |-> "string_format", index |-> 0, val |-> Uninit, path |-> "ok",
               set |-> FALSE, acc |-> {}, ret |-> NoArray]
    /\ crashed = FALSE
    /\ nextVal = 1
    /\ others = 0
    /\ initial_capacity = 0
    /\ onlyAppends = TRUE
    /\ handed = {}
    /\ added = {}
    /\ released = EmptyBag
    /\ freed = FALSE
    /\ undo = NoUndo
    /\ pr = PrintFrame("wait")
    /\ nl = NoNumlit

arrayVars == <<embedded, arr, call, crashed, nextVal, others, initial_capacity,
               onlyAppends, handed, added, freed, undo, nl>>

\* An iteration of the first loop of string_format.
StringFormatScan ==
    /\ sf.pc = "pass1"
    /\ sf' = Pass1(input, sf)
    /\ UNCHANGED <<arrayVars, eass_last_error, released, input, pr>>

\* malloc of formatted_string and of arg_values.
StringFormatAllocate ==
    /\ sf.pc = "alloc"
    /\ \E string_ok \in BOOLEAN, values_ok \in BOOLEAN :
         /\ sf' = Allocate(sf, string_ok, values_ok)
         /\ eass_last_error' = IF string_ok THEN eass_last_error
                               ELSE set_error("ENOMEM", "malloc failed in string_format")
    /\ UNCHANGED <<arrayVars, released, input, pr>>

\* An iteration of the second loop of string_format, or its end.
StringFormatRender ==
    /\ sf.pc = "pass2"
    /\ \E junk \in Indeterminate, junk_error \in {0, 1} :
         sf' = Pass2(input, sf, junk, junk_error)
    /\ released' = IF sf'.ret = "string" THEN released (+) BagOf(FinishIds(sf))
                   ELSE released
    /\ UNCHANGED <<arrayVars, eass_last_error, input, pr>>

\* print is called with the format and the arguments string_format was called
\* with, once that call is over.
PrintCall ==
    /\ sf.pc \in {"done", "crashed"}
    /\ pr.pc = "wait"
    /\ pr' = PrintFrame("run")
    /\ UNCHANGED <<arrayVars, eass_last_error, released, input, sf>>

\* An iteration of the loop of print, or its end.
PrintLoop ==
    /\ pr.pc = "run"
    /\ \E junk \in Indeterminate :
         pr' = PrintStep(input, pr, eass_last_error, junk)
    /\ UNCHANGED <<arrayVars, eass_last_error, released, input, sf>>

NextFmt ==
    \/ StringFormatScan
    \/ StringFormatAllocate
    \/ StringFormatRender
    \/ PrintCall
    \/ PrintLoop

SpecFmt == InitFmt /\ [][NextFmt]_vars

\* ------------------------------------------------------- numlit: the calls

\* Largest magnitude of a numlit argument, in halves.
MaxNum == 4

\* numlit is about to be called on an argument of some static type: a whole
\* number for an integral type, a multiple of one half for a floating type
\* (x is the value in millionths).
InitNumlit ==
    /\ \E ctype \in IntegralTypes \cup FloatingTypes, k \in (-MaxNum)..MaxNum,
          via \in {"macro", "function"} :
         nl = [ctype |-> ctype,
               x |-> IF ctype \in IntegralTypes THEN k * 1000000 ELSE k * 500000,
               via |-> via, done |-> FALSE, ret |-> Uninit]
    /\ input = NoInput
    /\ sf = Frame("idle")
    /\ pr = PrintFrame("idle")
    /\ eass_last_error = NoError
    /\ embedded = FALSE
    /\ arr = NoArray
    /\ call = [name |-> "numlit", index |-> 0, val |-> Uninit, path |-> "ok",
               set |-> FALSE, acc |-> {}, ret |-> NoArray]
    /\ crashed = FALSE
    /\ nextVal = 1
    /\ others = 0
    /\ initial_capacity = 0
    /\ onlyAppends = TRUE
    /\ handed = {}
    /\ added = {}
    /\ released = EmptyBag
    /\ freed = FALSE
    /\ undo = NoUndo

\* numlit(x)
Numlit ==
    /\ ~nl.done
    /\ nl' = [nl EXCEPT !.done = TRUE, !.ret = numlit(nl.ctype, nl.x, nl.via)]
    /\ UNCHANGED <<embedded, arr, eass_last_error, call, crashed, nextVal, others,
                   initial_capacity, onlyAppends, handed, added, released, freed, undo,
                   input, sf, pr>>

NextNumlit == Numlit

SpecNumlit == InitNumlit /\ [][NextNumlit]_vars

\* ------------------------------------------------------- claims: the array

\* The values the caller has created so far, in the order it created them.
Created == [i \in 1..(nextVal - 1) |-> CallerValue(i)]

\* seq with v put in front of its element number index (0-based).
InsertAt(seq, index, v) ==
    [j \in 1..(Len(seq) + 1) |->
        IF j <= index THEN seq[j] ELSE IF j = index + 1 THEN v ELSE seq[j - 1]]

RECURSIVE ValueIds(_), ArrayIds(_, _)

\* Every id inside a value: its own and those of the elements nested in it.
ValueIds(v) == IF v.type = "EASS_ARRAY" THEN {v.id} \cup ArrayIds(v.a, 1) ELSE {v.id}

ArrayIds(a, i) ==
    IF i > a.size THEN {} ELSE ValueIds(Load(a.data, i - 1)) \cup ArrayIds(a, i + 1)

IdsOf(ks) == UNION {ValueIds(CallerValue(k)) : k \in ks}

\* C1: after array(0) and N array_append calls that all succeeded, size is N
\* and data[i] is the i-th value appended, whatever growth happened on the way.
C1_AppendKeepsOrder ==
    (initial_capacity = 0 /\ onlyAppends /\ arr.error = 0)
        => (arr.size = nextVal - 1 /\ Elems(arr) = Created)

\* Five appends from capacity 0: the second growth (4 -> 6) moved four elements.
C1_Witness ==
    /\ initial_capacity = 0 /\ onlyAppends /\ arr.error = 0
    /\ arr.size = 5 /\ arr.capacity = 6

\* C2: a successful array_insert(arr, i, v) directly followed by
\* array_remove(arr, i) restores the content and returns v.
C2_InsertThenRemove ==
    (call.name = "array_remove" /\ call.path = "ok" /\ undo.valid)
        => (Elems(arr) = undo.elems /\ call.ret = undo.val)

\* C3: a successful array_insert(arr, index, val) on n elements leaves n + 1
\* elements: val at index, the former ones in order around it, on the growing
\* path as on the shifting path.
C3_InsertShifts ==
    (call.name = "array_insert" /\ call.path = "ok" /\ ~crashed)
        => (arr.size = Len(undo.elems) + 1
            /\ Elems(arr) = InsertAt(undo.elems, call.index, call.val))

\* The call just made was given an index outside its bound for the array it
\* was made on: index >= size (get, remove), index > size (insert).
OutOfBoundsCall ==
    \/ call'.name \in {"array_get", "array_remove"} /\ call'.index >= arr.size
    \/ call'.name = "array_insert" /\ call'.index > arr.size

\* The call was rejected with EINVAL, touched no slot and changed nothing.
RejectedUnchanged ==
    /\ eass_last_error'.code = "EINVAL"
    /\ call'.set
    /\ call'.acc = {}
    /\ arr' = arr

\* C4 as stated: every out-of-bounds get / remove / insert is rejected with
\* EINVAL in the Error Channel, touches no slot and leaves the array as it was.
C4_OutOfBoundsRejected == [][OutOfBoundsCall => RejectedUnchanged]_vars

\* C4 as amended: the same, for an array whose error flag is not set.
C4_OutOfBoundsRejectedUnlessFailed ==
    [][(arr.error = 0 /\ OutOfBoundsCall) => RejectedUnchanged]_vars

\* An out-of-bounds array_get on a non-empty, non-failed array.
C4_Witness ==
    /\ call.name = "array_get" /\ call.path = "bad_index"
    /\ arr.error = 0 /\ arr.size > 0 /\ call.index >= arr.size

\* C5: once arr.error is set it stays set, and array_append, array_insert and
\* array_remove leave the array as it is (append / insert return it, remove
\* returns a failed Null value).
C5_FailedIsSticky ==
    [][arr.error # 0 =>
          /\ arr'.error # 0
          /\ call'.name \in {"array_append", "array_insert", "array_remove"}
                => arr' = arr
          /\ call'.name \in {"array_append", "array_insert"} => call'.ret = arr
          /\ call'.name = "array_remove" => call'.ret = FailedNull]_vars

\* array_remove with a valid index on a failed array that holds elements.
C5_Witness ==
    /\ arr.error # 0 /\ arr.size > 0
    /\ call.name = "array_remove" /\ call.path = "error_flag"
    /\ call.index < arr.size

\* C6: an array_append that has to grow and gets no memory sets the error
\* flag and ENOMEM, and leaves size, capacity and every element as they were;
\* the value is not stored.
C6_AppendAllocFailure ==
    [][(call'.name = "array_append" /\ call'.path = "alloc_fail") =>
          /\ arr.size >= arr.capacity
          /\ arr'.error = 1
          /\ eass_last_error'.code = "ENOMEM"
          /\ arr'.size = arr.size
          /\ arr'.capacity = arr.capacity
          /\ arr'.data = arr.data
          /\ \A i \in 1..Len(arr'.data) : arr'.data[i] # call'.val]_vars

\* A failed growth of an array that holds elements.
C6_Witness ==
    /\ call.name = "array_append" /\ call.path = "alloc_fail"
    /\ arr.size > 0 /\ arr.error = 1

\* C7: after successful appends, inserts and removes, free_dynamic_array
\* releases every value still in the array (nested ones included) exactly
\* once and none that array_remove handed back.
C7_ReleaseExactlyOnce ==
    (freed /\ ~crashed /\ arr.error = 0)
        => /\ \A id \in IdsOf(added \ handed) : CopiesIn(id, released) = 1
           /\ \A id \in IdsOf(handed) : CopiesIn(id, released) = 0

\* C8: a call that takes a failure path returns a result with the error flag
\* set and has updated the Error Channel itself.  (Read in the claim's favour
\* for a call on an already failed array: there the flag alone is asked for,
\* the channel being left with the failure it holds.)
C8_FailureSignalledTwice ==
    (call.path # "ok")
        => (call.ret.error # 0 /\ (call.path = "error_flag" \/ call.set))

\* --------------------------------------------------- claims: string_format

RECURSIVE Flatten(_)

Flatten(seqs) == IF seqs = <<>> THEN <<>> ELSE Head(seqs) \o Flatten(Tail(seqs))

\* The text a value is rendered as.
Rendering(v) == Flatten(Pieces(v))

RECURSIVE DigitRun(_, _)

\* The number of digits of format from position p on.
DigitRun(format, p) ==
    IF p <= Len(format) /\ isdigit(format[p]) THEN 1 + DigitRun(format, p + 1) ELSE 0

\* Position p of format starts "{}".
ImplicitAt(format, p) ==
    p + 1 <= Len(format) /\ format[p] = "{" /\ format[p + 1] = "}"

\* Position p of format starts "{N}", N a run of digits.
ExplicitAt(format, p) ==
    /\ p + 2 <= Len(format) /\ format[p] = "{" /\ DigitRun(format, p + 1) > 0
    /\ p + 1 + DigitRun(format, p + 1) <= Len(format)
    /\ format[p + 1 + DigitRun(format, p + 1)] = "}"

\* The N of the "{N}" at position p.
IndexAt(format, p) == strtol([format |-> format, past |-> <<>>], p + 1, 0)

RECURSIVE Substituted(_, _, _, _)

\* The template from position p on with every "{}" replaced by the rendering
\* of the next argument (k were used) and every "{N}" by that of argument N.
Substituted(format, args, p, k) ==
    IF p > Len(format) THEN <<>>
    ELSE IF ImplicitAt(format, p)
    THEN Rendering(args[k + 1]) \o Substituted(format, args, p + 2, k + 1)
    ELSE IF ExplicitAt(format, p)
    THEN Rendering(args[IndexAt(format, p) + 1])
         \o Substituted(format, args, p + 2 + DigitRun(format, p + 1), k)
    ELSE <<format[p]>> \o Substituted(format, args, p + 1, k)

Implicits(format) == {p \in 1..Len(format) : ImplicitAt(format, p)}
Explicits(format) == {p \in 1..Len(format) : ExplicitAt(format, p)}

\* string_format returned, and not for want of memory.
Returned == sf.pc = "done" /\ ~sf.set

\* C9: a template whose placeholders are all explicit, each naming an argument
\* that was passed and has not failed, is rendered with every {N} replaced by
\* argument N: "{1} then {0}" with (Int 10, Int 20) gives "20 then 10".
C9_ExplicitIndex ==
    (/\ Returned
     /\ Implicits(input.format) = {} /\ Explicits(input.format) # {}
     /\ \A p \in Explicits(input.format) : IndexAt(input.format, p) < Len(input.args)
     /\ \A i \in 1..Len(input.args) : input.args[i].error = 0)
        => (sf.ret = "string" /\ sf.result = Substituted(input.format, input.args, 1, 0))

\* C10: a template with k implicit placeholders and no other, given k Int,
\* Float, Text or Null arguments that have not failed, is rendered with the
\* i-th {} replaced by the i-th argument: "{} and {}" with (Int 1, Text "x")
\* gives "1 and x".
C10_ImplicitOrder ==
    (/\ Returned
     /\ Explicits(input.format) = {}
     /\ Cardinality(Implicits(input.format)) = Len(input.args)
     /\ \A i \in 1..Len(input.args) :
           input.args[i].error = 0 /\ input.args[i].type # "EASS_ARRAY")
        => (sf.ret = "string" /\ sf.result = Substituted(input.format, input.args, 1, 0))

\* C11: a template in which no "{}" and no "{N}" occurs holds no placeholder:
\* string_format returns it unchanged, a '{' followed by a digit and not
\* closed by '}' and an unmatched '{' at the end included.
C11_OnlyPlaceholdersSubstituted ==
    (Returned /\ Implicits(input.format) = {} /\ Explicits(input.format) = {})
        => (sf.ret = "string" /\ sf.result = input.format)

\* The arguments (1-based) the placeholders of format refer to: the k-th "{}"
\* to argument k, "{N}" to argument N + 1.
Consumed(format) ==
    {Cardinality({q \in Implicits(format) : q <= p}) : p \in Implicits(format)}
        \cup {IndexAt(format, p) + 1 : p \in Explicits(format)}

\* C12: when an argument a placeholder refers to, through {} or through {N},
\* has its failed flag set, string_format returns NULL and the Error Channel
\* is as it was before the call.
C12_FailedArgumentNoOutput ==
    (/\ sf.pc = "done" /\ sf.string_ok
     /\ \E i \in Consumed(input.format) \cap (1..Len(input.args)) :
           input.args[i].error # 0)
        => (sf.ret = "NULL" /\ eass_last_error = input.before)

\* C13: when print returns, the last character it wrote is a newline.
C13_PrintEndsLine ==
    (pr.pc = "done") => (pr.out # <<>> /\ pr.out[Len(pr.out)] = "\n")

RECURSIVE Rendered(_), RenderedFrom(_, _)

\* The rendering of a value by kind: the text of an Int, Float or Text, "NULL"
\* for a Null, "Array[" elements joined by ", " "]" for an Array, each element
\* rendered as a value is.
Rendered(v) ==
    CASE v.type = "EASS_ARRAY" ->
            <<"A", "r", "r", "a", "y", "[">> \o RenderedFrom(v.a, 1) \o <<"]">>
      [] v.type = "EASS_NULL" -> <<"N", "U", "L", "L">>
      [] OTHER -> ScalarText(v)

\* The renderings of the elements of a from element i (1-based) on, joined.
RenderedFrom(a, i) ==
    IF i > a.size THEN <<>>
    ELSE Rendered(a.data[i]) \o (IF i < a.size THEN <<",", " ">> ELSE <<>>)
         \o RenderedFrom(a, i + 1)

\* The call is made on "{}" and one Array argument.
OneArray ==
    /\ input.format = <<"{", "}">>
    /\ Len(input.args) = 1
    /\ input.args[1].type = "EASS_ARRAY" /\ input.args[1].error = 0

\* C14: "{}" given an Array is rendered as "Array[", the renderings of all
\* the elements joined by ", ", and "]", by string_format and by print; a
\* Null element gives "NULL", an Array element "Array[...]", an empty array
\* "Array[]".
C14_ArrayRendering ==
    /\ (Returned /\ OneArray)
          => (sf.ret = "string" /\ sf.result = Rendered(input.args[1]))
    /\ (pr.pc = "done" /\ OneArray)
          => (pr.out = Rendered(input.args[1]) \o <<"\n">>)

\* C15: numlit(x) returns a value that has not failed, of kind Int when the
\* static type of x is integral and of kind Float when it is floating.
C15_NumlitKindByStaticType ==
    nl.done => /\ nl.ret.error = 0
               /\ (nl.ctype \in IntegralTypes) => (nl.ret.type = "EASS_INT")
               /\ (nl.ctype \in FloatingTypes) => (nl.ret.type = "EASS_FLOAT")

\* C16: when the allocation of the output buffer or of the argument-capture
\* buffer fails, string_format returns NULL with ENOMEM in the Error Channel,
\* has written through no null pointer and holds no buffer any more.
C16_AllocationFailureTolerated ==
    (/\ sf.pc \in {"done", "crashed"}
     /\ (~sf.string_ok \/ (~sf.values_ok /\ sf.arg_count > 0)))
        => /\ sf.pc = "done" /\ sf.ret = "NULL"
           /\ eass_last_error.code = "ENOMEM"
           /\ ~sf.bad
           /\ sf.buf = <<>>

\* C17: while the process runs, size <= capacity; the array array() returns
\* after a failed allocation has its failed flag set, a null buffer and
\* size 0.
C17_SizeWithinCapacity ==
    ~crashed =>
        /\ arr.size <= arr.capacity
        /\ (call.name = "array" /\ call.path # "ok")
              => (arr.error # 0 /\ arr.data = <<>> /\ arr.size = 0)

\* C18: in the second pass the write position stays within the
\* formatted_length + 1 bytes allocated and nothing is written outside them.
C18_LengthIsUpperBound ==
    (sf.pc \in {"pass2", "done"})
        => (~sf.oob /\ sf.out_p <= sf.formatted_length + 1)

\* C19: for arguments none of which has failed, print writes the string
\* string_format returns for the same template and arguments, and a newline
\* (looked at where string_format stayed within its buffer).
C19_PrintAsStringFormat ==
    (/\ sf.pc = "done" /\ sf.ret = "string" /\ ~sf.oob /\ pr.pc = "done"
     /\ \A i \in 1..Len(input.args) : input.args[i].error = 0)
        => (pr.out = sf.result \o <<"\n">>)

\* C20: free_dynamic_array on an array that has not failed, whatever was done
\* to it before, a free_dynamic_array included, reads no element through a
\* null or freed buffer, releases nothing twice, and leaves no index below
\* size.
C20_FreeIsSafe ==
    (call.name = "free_dynamic_array" /\ arr.error = 0)
        => /\ ~crashed
           /\ \A id \in BagToSet(released) : CopiesIn(id, released) = 1
           /\ arr.size = 0

====
